---- MODULE Spec2Model ----
(***************************************************************************)
(* Model of the MCP Hub desktop shell (src/gui): the hub process           *)
(* supervisor and polling timer of MCPHubApp (app.py), the HTTP client     *)
(* MCPHubClient (hub_client.py) and the roster view ServersTab             *)
(* (servers_tab.py).                                                       *)
(*                                                                         *)
(* Three specifications share the variables:                               *)
(*   Spec        the supervisor: the interaction (Tk main) thread, the     *)
(*               run() threads of _start_hub, the hub processes, the       *)
(*               after(0, ...) hand-off queue and the polling timer;       *)
(*   SpecClient  one API client operation on one transport outcome;        *)
(*   SpecRoster  the roster view: refresh, the tools toggle, the           *)
(*               enable switch and the polling fetch.                      *)
(***************************************************************************)
EXTENDS Naturals, Sequences, FiniteSets, Bags, TLC

\* ------------------------------------------------------------------ bounds
\* Start requests modelled (each creates one run() thread, ids 1..MaxStarts).
MaxStarts == 3
\* Stop requests modelled.
MaxStops == 1
\* Lines of hub output modelled.
MaxLines == 1

Threads == 1..MaxStarts
\* A process is named after the thread that spawned it; 0 is Python's None.
None == 0

\* Exit codes a hub that exits on its own may return.
ExitCodes == {0, 1}

VARIABLES
  \* ---- MCPHubApp (app.py)
  hub_process,   \* self.hub_process: None or the Popen handle
  hub_running,   \* self.hub_running
  btn_state,     \* start_btn state: "normal" | "disabled"
  btn_text,      \* start_btn text: "Start Hub" | "Stop Hub"
  status,        \* status_label text
  log_entries,   \* logs_tab.log_entries, as the bag of its <<level, message>>
                 \* entries (their order in the list is not tracked)
  uiq,           \* callbacks handed to the interaction thread by after(0, ...)
  mpc,           \* position of the interaction thread inside _stop_hub
  stop_exc,      \* the exception _stop_hub has caught: "none" | "raised" |
                 \* "timeout" ("none" outside _stop_hub)
  pc,            \* position of each run() thread
  tgt,           \* the handle a run() thread last read from self.hub_process
  proc,          \* OS state of each spawned hub process
  nstarts,       \* _start_hub calls so far
  nstops,        \* _stop_hub calls so far
  timerArmed,    \* an after(3000, _poll_health) callback is pending
  polled,        \* what the last _poll_health tick did
  nlines,        \* lines of hub output read so far
  \* ---- MCPHubClient (hub_client.py)
  call,          \* the API client operation last performed, with its answer
  \* ---- ServersTab (servers_tab.py)
  cards,         \* self.cards: server name -> ServerCard
  empty_packed,  \* the empty-state label is packed (shown)
  last           \* what the last refresh() was given and did

hubVars == <<hub_process, hub_running, btn_state, btn_text, status, log_entries,
             uiq, mpc, stop_exc, pc, tgt, proc, nstarts, nstops, timerArmed,
             polled, nlines>>

clientVars == <<call>>
rosterVars == <<cards, empty_packed, last>>

vars == <<hubVars, clientVars, rosterVars>>

\* What the supervisor's actions leave alone.
notHub == <<clientVars, rosterVars>>

\* ===================================================== the roster's data
\* Entries in one roster (names may repeat in it).
MaxRoster == 2

\* The server names the hub reports.
Names == {"fs", "git"}

\* A Server Summary as the hub reports it (the fields the cards read).
Sdata == [name : Names, disabled : BOOLEAN, tools : {<<"read_file">>}]
Rosters == UNION {[1..n -> Sdata] : n \in 0..MaxRoster}

\* ============================================== MCPHubClient (hub_client.py)
\* Response bodies: bytes that do not decode, text that is not JSON, an empty
\* body, and the JSON texts null, {}, [1], {"ok": true} and a health object.
PlainBodies == {[b |-> x, servers |-> << >>] :
                  x \in {"bad_utf8", "garbage", "empty", "null", "empty_obj",
                         "list", "obj"}}
HealthBodies == {[b |-> "health", servers |-> r] : r \in Rosters}

Statuses == {200, 204, 404, 500}

\* What one urlopen() attempt meets: a transport error or an HTTP response.
ErrorOutcomes == {[kind |-> "error", err |-> e, status |-> 0,
                   body |-> [b |-> "empty", servers |-> << >>]] :
                    e \in {"refused", "timeout"}}
ResponseOutcomes(bodies) ==
  {[kind |-> "response", err |-> "", status |-> st, body |-> bd] :
     st \in Statuses, bd \in bodies}
\* Answers to a GET (a health object comes with status 200) and to a POST.
GetOutcomes == ErrorOutcomes \cup ResponseOutcomes(PlainBodies)
                 \cup {[kind |-> "response", err |-> "", status |-> 200,
                        body |-> bd] : bd \in HealthBodies}
PostOutcomes == ErrorOutcomes \cup ResponseOutcomes(PlainBodies)

\* Python values the client returns: None, a dict, a list.
NoData == [t |-> "none", has_servers |-> FALSE, servers |-> << >>]
Dict(has, r) == [t |-> "dict", has_servers |-> has, servers |-> r]
EmptyDict == [t |-> "empty_dict", has_servers |-> FALSE, servers |-> << >>]
ListValue == [t |-> "list", has_servers |-> FALSE, servers |-> << >>]
Raised(exc) == [t |-> "raised", has_servers |-> FALSE, servers |-> << >>]

\* urllib.request.urlopen: raises URLError on a transport error and HTTPError
\* on a status outside 2xx.
UrlOpenRaises(out) == out.kind = "error" \/ out.status \notin 200..299
\* resp.read().decode(): raises UnicodeDecodeError on bytes that are not UTF-8.
DecodeRaises(body) == body.b = "bad_utf8"
\* json.loads: raises JSONDecodeError on text that is not JSON.
JsonLoadsRaises(body) == body.b \in {"garbage", "empty"}
json_loads(body) ==
  CASE body.b = "null" -> NoData
    [] body.b = "empty_obj" -> EmptyDict
    [] body.b = "list" -> ListValue
    [] body.b = "obj" -> Dict(FALSE, << >>)
    [] body.b = "health" -> Dict(TRUE, body.servers)

\* The body of the try block of _get and _post.
TryRequest(out) ==
  IF UrlOpenRaises(out)
    THEN [raised |-> TRUE, exc |-> IF out.kind = "error" THEN "URLError"
                                   ELSE "HTTPError", value |-> NoData]
  ELSE IF DecodeRaises(out.body)
    THEN [raised |-> TRUE, exc |-> "UnicodeDecodeError", value |-> NoData]
  ELSE IF JsonLoadsRaises(out.body)
    THEN [raised |-> TRUE, exc |-> "JSONDecodeError", value |-> NoData]
  ELSE [raised |-> FALSE, exc |-> "", value |-> json_loads(out.body)]

\* A request: one urlopen attempt; the record keeps what was sent and returned.
Answer(method, url, body, timeout, out, result) ==
  [method |-> method, url |-> url, body |-> body, timeout |-> timeout,
   outcome |-> out, attempts |-> 1, result |-> result]

\* Mutant of _get: only the urllib errors are caught.
_get_urllib_errors_only(path, out) ==
  LET r == TryRequest(out) IN
    Answer("GET", <<path, "">>, << >>, 5, out,
           IF ~r.raised THEN r.value
           ELSE IF r.exc \in {"URLError", "HTTPError"} THEN NoData
           ELSE Raised(r.exc))

\* MCPHubClient._get: except Exception: return None.
_get(path, out) ==
  LET r == TryRequest(out) IN
    Answer("GET", <<path, "">>, << >>, 5, out, IF r.raised THEN NoData ELSE r.value)

\* MCPHubClient._post: the same, with a JSON body (body or {}).
_post(path, body, query, out) ==
  LET r == TryRequest(out) IN
    Answer("POST", <<path, query>>, body, 10, out,
           IF r.raised THEN NoData ELSE r.value)

get_health(out) == _get("/api/health", out)
get_servers(out) == _get("/api/servers", out)
start_server(name, out) ==
  _post("/api/servers/start", <<"server_name", name>>, "", out)
stop_server(name, disable, out) ==
  _post("/api/servers/stop", <<"server_name", name>>,
        IF disable THEN "?disable=true" ELSE "", out)
refresh_server(name, out) ==
  _post("/api/servers/refresh", <<"server_name", name>>, "", out)
restart_hub(out) == _post("/api/restart", << >>, "", out)

NoCall == [op |-> "none", answer |-> << >>]
Called(op, answer) == [op |-> op, answer |-> <<answer>>]

\* ================================================ ServersTab (servers_tab.py)
\* Mutant of NamesOf: the set of current names comes out empty.
NamesOf_none(servers_list) == {}

\* refresh, line 197: the names of the roster's entries.
NamesOf(servers_list) == {servers_list[i].name : i \in DOMAIN servers_list}

\* ServerCard.__init__ and _build: a fresh ToolsList is collapsed, and the
\* switch shows "enabled" unless the server is disabled.
NewCard(sdata) ==
  [server_data |-> sdata, server_name |-> sdata.name,
   enabled_var |-> ~sdata.disabled, tools |-> sdata.tools, expanded |-> FALSE]

\* ServerCard.update_data: every child widget is destroyed and _build runs
\* again, which makes a new ToolsList (collapsed) and a new switch variable.
update_data(card, sdata) ==
  [NewCard(sdata) EXCEPT !.server_name = card.server_name]

\* Mutant of RemoveVanished: no card is removed.
RemoveVanished_keep(cs, current_names) == cs

\* refresh, lines 201-203: the cards of vanished servers are popped.
RemoveVanished(cs, current_names) ==
  [n \in (DOMAIN cs) \cap current_names |-> cs[n]]

\* refresh, lines 213-225: each roster entry updates its card or creates one.
\* acc = [cards, created, updated].
RECURSIVE RefreshLoop(_, _)
RefreshLoop(acc, servers_list) ==
  IF servers_list = << >> THEN acc
  ELSE LET sdata == Head(servers_list)
           name == sdata.name
           cs == acc.cards
       IN IF name \in DOMAIN cs
            THEN RefreshLoop(
                   [acc EXCEPT !.cards = [cs EXCEPT ![name] =
                                            update_data(cs[name], sdata)],
                               !.updated = @ \cup {name}],
                   Tail(servers_list))
            ELSE RefreshLoop(
                   [acc EXCEPT !.cards = [n \in DOMAIN cs \cup {name} |->
                                            IF n = name THEN NewCard(sdata)
                                            ELSE cs[n]],
                               !.created = @ \cup {name}],
                   Tail(servers_list))

\* Mutant of EmptyLabel: the label is never packed again.
EmptyLabel_forgotten(servers_list) == FALSE

\* refresh, lines 206-211: a non-empty roster forgets the empty-state label,
\* an empty one packs it (unless it is mapped already) and returns.
EmptyLabel(servers_list) == servers_list = << >>

\* ServersTab.refresh(servers_list) on the cards cs: the new cards, whether
\* the empty-state label is packed, and what was created, updated, destroyed.
refresh(cs, servers_list) ==
  LET current_names == NamesOf(servers_list)
      existing_names == DOMAIN cs
      kept == RemoveVanished(cs, current_names)
      destroyed == existing_names \ DOMAIN kept
      start == [cards |-> kept, created |-> {}, updated |-> {}]
      done == IF servers_list = << >> THEN start
              ELSE RefreshLoop(start, servers_list)
  IN [cards |-> done.cards,
      empty_packed |-> EmptyLabel(servers_list),
      created |-> done.created,
      updated |-> done.updated,
      destroyed |-> destroyed]

\* No refresh() has run yet.  `view` is the roster view as the last refresh
\* left it, `again` whether that refresh was given the roster of the one
\* before it while the view was still as that one had left it.
NoView == [cards |-> << >>, empty_packed |-> TRUE]
NoRefresh == [called |-> FALSE, roster |-> << >>, before |-> {},
              created |-> {}, updated |-> {}, destroyed |-> {},
              view |-> NoView, again |-> FALSE]

\* `if data:` in fetch(): None, {} and [] are falsy.
Truthy(v) == v.t \in {"dict", "list"}

\* ------------------------------------------------------------ OS processes
Dead(p) == proc[p] \in {"exit0", "exit1", "termexit", "killed"}
Live(p) == proc[p] \in {"alive", "termed"}
ExitedOnItsOwn(p) == proc[p] \in {"exit0", "exit1"}

\* ------------------------------------------------------- after(0, ...) groups
StartedCallbacks ==
  << [k |-> "btn", state |-> "normal", text |-> "Stop Hub"],
     [k |-> "status", text |-> "Running"],
     [k |-> "log", level |-> "INFO", msg |-> "Hub process started"] >>

ExitedCallbacks ==
  << [k |-> "btn", state |-> "normal", text |-> "Start Hub"],
     [k |-> "status", text |-> "Stopped"],
     [k |-> "log", level |-> "INFO", msg |-> "Hub process exited"] >>

ErrorCallbacks(msg) ==
  << [k |-> "btn", state |-> "normal", text |-> "Start Hub"],
     [k |-> "status", text |-> "Error"],
     [k |-> "log", level |-> "ERROR", msg |-> msg] >>

\* LogsTab.append_log: the entry is appended to log_entries.
append_log(level, msg) == log_entries (+) SetToBag({<<level, msg>>})

\* ------------------------------------------------------------------- Init
InitHub ==
  /\ hub_process = None
  /\ hub_running = FALSE
  /\ btn_state = "normal"
  /\ btn_text = "Start Hub"
  /\ status = "Stopped"
  /\ log_entries = EmptyBag
  /\ uiq = << >>
  /\ mpc = "idle"
  /\ stop_exc = "none"
  /\ pc = [t \in Threads |-> "unborn"]
  /\ tgt = [t \in Threads |-> None]
  /\ proc = [t \in Threads |-> "none"]
  /\ nstarts = 0
  /\ nstops = 0
  /\ timerArmed = TRUE
  /\ polled = "none"
  /\ nlines = 0

\* ------------------------------------------------- the interaction thread
\* _toggle_hub with hub_running false: _start_hub.  start_btn is a CTkButton:
\* it runs its command only while its state is not "disabled".  (The port read
\* by _read_port only parameterises the command line and is not modelled.)
StartHub ==
  /\ mpc = "idle"
  /\ btn_state = "normal"
  /\ ~hub_running
  /\ nstarts < MaxStarts
  /\ nstarts' = nstarts + 1
  /\ status' = "Starting..."
  /\ btn_state' = "disabled"
  /\ log_entries' = append_log("INFO", "Starting MCP Hub")
  /\ pc' = [pc EXCEPT ![nstarts + 1] = "spawn"]
  /\ UNCHANGED <<hub_process, hub_running, btn_text, uiq, mpc, stop_exc, tgt,
                 proc, nstops, timerArmed, polled, nlines>>
  /\ UNCHANGED notHub

\* _toggle_hub with hub_running true: _stop_hub up to its first blocking call.
StopHub ==
  /\ mpc = "idle"
  /\ btn_state = "normal"
  /\ hub_running
  /\ nstops < MaxStops
  /\ nstops' = nstops + 1
  /\ log_entries' = append_log("INFO", "Stopping MCP Hub...")
  /\ mpc' = IF hub_process # None THEN "terminate" ELSE "finish"
  /\ stop_exc' = "none"
  /\ UNCHANGED <<hub_process, hub_running, btn_state, btn_text, status, uiq,
                 pc, tgt, proc, nstarts, timerArmed, polled, nlines>>
  /\ UNCHANGED notHub

\* self.hub_process.terminate(): a no-op on a process already reaped, else
\* the signal is delivered or the call raises (caught at line 194).
StopTerminate ==
  /\ mpc = "terminate"
  /\ \/ /\ Dead(hub_process)
        /\ mpc' = "wait"
        /\ UNCHANGED <<proc, stop_exc>>
     \/ /\ Live(hub_process)
        /\ mpc' = "wait"
        /\ proc' = [proc EXCEPT ![hub_process] = "termed"]
        /\ UNCHANGED stop_exc
     \/ /\ Live(hub_process)
        /\ mpc' = "kill"
        /\ stop_exc' = "raised"
        /\ UNCHANGED proc
  /\ UNCHANGED <<hub_process, hub_running, btn_state, btn_text, status,
                 log_entries, uiq, pc, tgt, nstarts, nstops, timerArmed, polled,
                 nlines>>
  /\ UNCHANGED notHub

\* self.hub_process.wait(timeout=5): returns once the process has exited,
\* raises TimeoutExpired (caught at line 194) while it has not.
StopWait ==
  /\ mpc = "wait"
  /\ \/ /\ Dead(hub_process)
        /\ mpc' = "clear"
        /\ UNCHANGED stop_exc
     \/ /\ Live(hub_process)
        /\ mpc' = "kill"
        /\ stop_exc' = "timeout"
  /\ UNCHANGED <<hub_process, hub_running, btn_state, btn_text, status,
                 log_entries, uiq, pc, tgt, proc, nstarts, nstops, timerArmed,
                 polled, nlines>>
  /\ UNCHANGED notHub

\* self.hub_process.kill() in the except branch.  The call is not itself
\* guarded: when it raises, the exception leaves _stop_hub and lines 196-199
\* do not run.
StopKill ==
  /\ mpc = "kill"
  /\ \/ /\ Dead(hub_process)
        /\ mpc' = "clear"
        /\ UNCHANGED <<proc, stop_exc>>
     \/ /\ Live(hub_process)
        /\ mpc' = "clear"
        /\ proc' = [proc EXCEPT ![hub_process] = "killed"]
        /\ UNCHANGED stop_exc
     \/ /\ Live(hub_process)
        /\ mpc' = "idle"
        /\ stop_exc' = "none"
        /\ UNCHANGED proc
  /\ UNCHANGED <<hub_process, hub_running, btn_state, btn_text, status,
                 log_entries, uiq, pc, tgt, nstarts, nstops, timerArmed, polled,
                 nlines>>
  /\ UNCHANGED notHub

\* self.hub_process = None
StopClear ==
  /\ mpc = "clear"
  /\ hub_process' = None
  /\ mpc' = "finish"
  /\ UNCHANGED <<hub_running, btn_state, btn_text, status, log_entries, uiq,
                 stop_exc, pc, tgt, proc, nstarts, nstops, timerArmed, polled,
                 nlines>>
  /\ UNCHANGED notHub

\* self.hub_running = False, then the button text and the status label.
StopFinish ==
  /\ mpc = "finish"
  /\ hub_running' = FALSE
  /\ btn_text' = "Start Hub"
  /\ status' = "Stopped"
  /\ mpc' = "idle"
  /\ stop_exc' = "none"
  /\ UNCHANGED <<hub_process, btn_state, log_entries, uiq, pc, tgt, proc,
                 nstarts, nstops, timerArmed, polled, nlines>>
  /\ UNCHANGED notHub

\* The interaction thread runs the oldest after(0, ...) callback.
RunCallback ==
  /\ mpc = "idle"
  /\ uiq # << >>
  /\ LET cb == Head(uiq) IN
       /\ uiq' = Tail(uiq)
       /\ btn_state' = IF cb.k = "btn" THEN cb.state ELSE btn_state
       /\ btn_text' = IF cb.k = "btn" THEN cb.text ELSE btn_text
       /\ status' = IF cb.k = "status" THEN cb.text ELSE status
       /\ log_entries' = IF cb.k = "log" THEN append_log(cb.level, cb.msg)
                         ELSE log_entries
  /\ UNCHANGED <<hub_process, hub_running, mpc, stop_exc, pc, tgt, proc,
                 nstarts, nstops, timerArmed, polled, nlines>>
  /\ UNCHANGED notHub

\* _poll_health: a health request is issued (on a fetch thread) when
\* hub_running; the timer is rescheduled either way.  What the fetch thread
\* does with the answer is PollFetch, under SpecRoster.
PollHealth ==
  /\ mpc = "idle"
  /\ timerArmed
  /\ polled' = IF hub_running THEN "issued" ELSE "skipped"
  /\ timerArmed' = TRUE
  /\ UNCHANGED <<hub_process, hub_running, btn_state, btn_text, status,
                 log_entries, uiq, mpc, stop_exc, pc, tgt, proc, nstarts,
                 nstops, nlines>>
  /\ UNCHANGED notHub

\* -------------------------------------------------------- the run() threads
\* The except branch of run(): hub_running = False and three callbacks.
RunExcept(t, msg) ==
  /\ hub_running' = FALSE
  /\ uiq' = uiq \o ErrorCallbacks(msg)
  /\ pc' = [pc EXCEPT ![t] = "done_error"]

\* subprocess.Popen(...): the handle is stored in self.hub_process, or Popen
\* raises and the except branch runs.
RunSpawn(t) ==
  /\ pc[t] = "spawn"
  /\ \/ /\ hub_process' = t
        /\ proc' = [proc EXCEPT ![t] = "alive"]
        /\ pc' = [pc EXCEPT ![t] = "started"]
        /\ UNCHANGED <<hub_running, uiq>>
     \/ /\ RunExcept(t, "spawn failed")
        /\ UNCHANGED <<hub_process, proc>>
  /\ UNCHANGED <<btn_state, btn_text, status, log_entries, mpc, stop_exc, tgt,
                 nstarts, nstops, timerArmed, polled, nlines>>
  /\ UNCHANGED notHub

\* self.hub_running = True and the three "started" callbacks.
RunSetRunning(t) ==
  /\ pc[t] = "started"
  /\ hub_running' = TRUE
  /\ uiq' = uiq \o StartedCallbacks
  /\ pc' = [pc EXCEPT ![t] = "open"]
  /\ UNCHANGED <<hub_process, btn_state, btn_text, status, log_entries, mpc,
                 stop_exc, tgt, proc, nstarts, nstops, timerArmed, polled,
                 nlines>>
  /\ UNCHANGED notHub

\* iter(self.hub_process.stdout.readline, b""): self.hub_process is read again;
\* when _stop_hub has set it to None the attribute access raises.
RunOpenReader(t) ==
  /\ pc[t] = "open"
  /\ \/ /\ hub_process # None
        /\ tgt' = [tgt EXCEPT ![t] = hub_process]
        /\ pc' = [pc EXCEPT ![t] = "reading"]
        /\ UNCHANGED <<hub_running, uiq>>
     \/ /\ hub_process = None
        /\ RunExcept(t, "'NoneType' object has no attribute 'stdout'")
        /\ UNCHANGED tgt
  /\ UNCHANGED <<hub_process, btn_state, btn_text, status, log_entries, mpc,
                 stop_exc, proc, nstarts, nstops, timerArmed, polled, nlines>>
  /\ UNCHANGED notHub

\* One line of hub output: a "HUB" log callback.
RunReadLine(t) ==
  /\ pc[t] = "reading"
  /\ Live(tgt[t])
  /\ nlines < MaxLines
  /\ nlines' = nlines + 1
  /\ uiq' = Append(uiq, [k |-> "log", level |-> "HUB", msg |-> "line"])
  /\ UNCHANGED <<hub_process, hub_running, btn_state, btn_text, status,
                 log_entries, mpc, stop_exc, pc, tgt, proc, nstarts, nstops,
                 timerArmed, polled>>
  /\ UNCHANGED notHub

\* End of output (the process read from has exited); then self.hub_process is
\* read once more for self.hub_process.wait(), and is None after a stop.
RunEndOfOutput(t) ==
  /\ pc[t] = "reading"
  /\ Dead(tgt[t])
  /\ \/ /\ hub_process # None
        /\ tgt' = [tgt EXCEPT ![t] = hub_process]
        /\ pc' = [pc EXCEPT ![t] = "wait"]
        /\ UNCHANGED <<hub_running, uiq>>
     \/ /\ hub_process = None
        /\ RunExcept(t, "'NoneType' object has no attribute 'wait'")
        /\ UNCHANGED tgt
  /\ UNCHANGED <<hub_process, btn_state, btn_text, status, log_entries, mpc,
                 stop_exc, proc, nstarts, nstops, timerArmed, polled, nlines>>
  /\ UNCHANGED notHub

\* wait() returned: self.hub_running = False and the three "exited" callbacks.
RunExited(t) ==
  /\ pc[t] = "wait"
  /\ Dead(tgt[t])
  /\ hub_running' = FALSE
  /\ uiq' = uiq \o ExitedCallbacks
  /\ pc' = [pc EXCEPT ![t] = "done_exit"]
  /\ UNCHANGED <<hub_process, btn_state, btn_text, status, log_entries, mpc,
                 stop_exc, tgt, proc, nstarts, nstops, timerArmed, polled,
                 nlines>>
  /\ UNCHANGED notHub

\* ------------------------------------------------------- the hub processes
\* A hub exits on its own with some exit code, or in response to terminate.
ProcExit(p) ==
  /\ Live(p)
  /\ \/ /\ proc[p] = "alive"
        /\ \E c \in ExitCodes :
             proc' = [proc EXCEPT ![p] = IF c = 0 THEN "exit0" ELSE "exit1"]
     \/ /\ proc[p] = "termed"
        /\ proc' = [proc EXCEPT ![p] = "termexit"]
  /\ UNCHANGED <<hub_process, hub_running, btn_state, btn_text, status,
                 log_entries, uiq, mpc, stop_exc, pc, tgt, nstarts, nstops,
                 timerArmed, polled, nlines>>
  /\ UNCHANGED notHub

Next ==
  \/ StartHub
  \/ StopHub
  \/ StopTerminate
  \/ StopWait
  \/ StopKill
  \/ StopClear
  \/ StopFinish
  \/ RunCallback
  \/ PollHealth
  \/ \E t \in Threads : RunSpawn(t)
  \/ \E t \in Threads : RunSetRunning(t)
  \/ \E t \in Threads : RunOpenReader(t)
  \/ \E t \in Threads : RunReadLine(t)
  \/ \E t \in Threads : RunEndOfOutput(t)
  \/ \E t \in Threads : RunExited(t)
  \/ \E p \in Threads : ProcExit(p)

InitClient == call = NoCall

InitRoster ==
  /\ cards = [n \in {} |-> NewCard(CHOOSE sd \in Sdata : TRUE)]
  /\ empty_packed = TRUE
  /\ last = NoRefresh

\* The application after construction.
Init == InitHub /\ InitClient /\ InitRoster

Spec == Init /\ [][Next]_vars

\* ----------------------------------------------- the API client operations
\* One operation of MCPHubClient meeting one transport outcome.
Health(out) ==
  /\ call' = Called("get_health", get_health(out))
  /\ UNCHANGED <<hubVars, rosterVars>>

ListServers(out) ==
  /\ call' = Called("get_servers", get_servers(out))
  /\ UNCHANGED <<hubVars, rosterVars>>

StartServer(name, out) ==
  /\ call' = Called("start_server", start_server(name, out))
  /\ UNCHANGED <<hubVars, rosterVars>>

StopServer(name, disable, out) ==
  /\ call' = Called("stop_server", stop_server(name, disable, out))
  /\ UNCHANGED <<hubVars, rosterVars>>

RefreshServer(name, out) ==
  /\ call' = Called("refresh_server", refresh_server(name, out))
  /\ UNCHANGED <<hubVars, rosterVars>>

RestartHub(out) ==
  /\ call' = Called("restart_hub", restart_hub(out))
  /\ UNCHANGED <<hubVars, rosterVars>>

NextClient ==
  \/ \E out \in GetOutcomes : Health(out)
  \/ \E out \in GetOutcomes : ListServers(out)
  \/ \E name \in Names, out \in PostOutcomes : StartServer(name, out)
  \/ \E name \in Names, disable \in BOOLEAN, out \in PostOutcomes :
       StopServer(name, disable, out)
  \/ \E name \in Names, out \in PostOutcomes : RefreshServer(name, out)
  \/ \E out \in PostOutcomes : RestartHub(out)

SpecClient == Init /\ [][NextClient]_vars

\* ------------------------------------------------------- the roster view
\* The hub is running (started once, its output being read) while the roster
\* view is exercised.
InitRunningHub ==
  /\ hub_process = 1
  /\ hub_running = TRUE
  /\ btn_state = "normal"
  /\ btn_text = "Stop Hub"
  /\ status = "Running"
  /\ log_entries = SetToBag({<<"INFO", "Starting MCP Hub">>,
                             <<"INFO", "Hub process started">>})
  /\ uiq = << >>
  /\ mpc = "idle"
  /\ stop_exc = "none"
  /\ pc = [t \in Threads |-> IF t = 1 THEN "reading" ELSE "unborn"]
  /\ tgt = [t \in Threads |-> IF t = 1 THEN 1 ELSE None]
  /\ proc = [t \in Threads |-> IF t = 1 THEN "alive" ELSE "none"]
  /\ nstarts = 1
  /\ nstops = 0
  /\ timerArmed = TRUE
  /\ polled = "issued"
  /\ nlines = 0

\* fetch() of _poll_health, then the refresh it hands to the interaction
\* thread: the health answer is fed to refresh() when it is truthy; a list has
\* no .get and the AttributeError is swallowed by `except Exception: pass`.
PollFetch(out) ==
  /\ hub_running
  /\ LET data == get_health(out).result IN
       IF Truthy(data) /\ data.t = "dict"
         THEN LET servers_list == IF data.has_servers THEN data.servers
                                  ELSE << >>
                  r == refresh(cards, servers_list)
              IN /\ cards' = r.cards
                 /\ empty_packed' = r.empty_packed
                 /\ last' = [called |-> TRUE, roster |-> servers_list,
                             before |-> DOMAIN cards, created |-> r.created,
                             updated |-> r.updated, destroyed |-> r.destroyed,
                             view |-> [cards |-> r.cards,
                                       empty_packed |-> r.empty_packed],
                             again |-> /\ last.called
                                       /\ servers_list = last.roster
                                       /\ last.view =
                                            [cards |-> cards,
                                             empty_packed |-> empty_packed]]
         ELSE UNCHANGED rosterVars
  /\ UNCHANGED <<hubVars, clientVars>>

\* ToolsList._toggle on the card of server n.
ToggleTools(n) ==
  /\ n \in DOMAIN cards
  /\ cards' = [cards EXCEPT ![n].expanded = ~@]
  /\ UNCHANGED <<hubVars, clientVars, empty_packed, last>>

\* ServerCard._on_switch: the user flips the switch (which sets enabled_var),
\* do() calls start_server or stop_server(disable=True) and drops the answer;
\* on_toggle is `lambda: None`.
OnSwitch(n, out) ==
  /\ n \in DOMAIN cards
  /\ LET enabled == ~cards[n].enabled_var
         answer == IF enabled THEN start_server(cards[n].server_name, out)
                   ELSE stop_server(cards[n].server_name, TRUE, out)
     IN /\ answer.attempts = 1
        /\ cards' = [cards EXCEPT ![n].enabled_var = enabled]
  /\ UNCHANGED <<hubVars, clientVars, empty_packed, last>>

NextRoster ==
  \/ \E out \in GetOutcomes : PollFetch(out)
  \/ \E n \in Names : ToggleTools(n)
  \/ \E n \in Names, out \in PostOutcomes : OnSwitch(n, out)

InitRosterView == InitRunningHub /\ InitClient /\ InitRoster

SpecRoster == InitRosterView /\ [][NextRoster]_vars

\* ==================================================== supervisor properties
LiveProcs == {p \in Threads : Live(p)}
DoneThread(t) == pc[t] \in {"done_exit", "done_error"}
LeavesStop == mpc # "idle" /\ mpc' = "idle"

\* C1: under every interleaving of Start/Stop toggles with the run() threads,
\* at most one spawned hub process is alive at any instant (a toggle made
\* while a hub process is alive never leads to a second one).
C1_AtMostOneHubAlive == Cardinality(LiveProcs) <= 1

\* C2: a stop whose wait(timeout=5) timed out ends with the process killed,
\* the handle absent, the running flag cleared and the start control usable,
\* so that a following start can spawn anew.
C2_TimeoutStopKillsAndClears ==
  [][ (LeavesStop /\ stop_exc = "timeout")
        => /\ hub_process' = None
           /\ ~hub_running'
           /\ LiveProcs' = {}
           /\ btn_state' = "normal" ]_vars

\* C3: every stop request ends Idle: running flag false and handle cleared,
\* also when terminate() or kill() itself fails.
C3_StopAlwaysEndsIdle ==
  [][ LeavesStop => (hub_process' = None /\ ~hub_running') ]_vars

\* C4: when Popen fails, whatever happened before, the running flag is false,
\* an ERROR log entry and the re-enabling of the start control are handed to
\* the interaction thread, and no process handle is left set.
C4_SpawnFailureLeavesNoHandle ==
  [][ \A t \in Threads :
        (pc[t] = "spawn" /\ pc'[t] = "done_error")
          => /\ ~hub_running'
             /\ hub_process' = None
             /\ uiq' = uiq \o ErrorCallbacks("spawn failed") ]_vars

\* C5: when a hub process exits on its own (any exit code), its run() thread
\* ends through the wait: running flag false and the callbacks that restore
\* "Start Hub" / "Stopped" and log "Hub process exited".
C5_NaturalExitReported ==
  [][ \A t \in Threads :
        (ExitedOnItsOwn(t) /\ ~DoneThread(t) /\ DoneThread(t)')
          => /\ pc'[t] = "done_exit"
             /\ ~hub_running'
             /\ uiq' = uiq \o ExitedCallbacks ]_vars

\* C6: every tick reschedules the timer; a tick issues a health request iff
\* the hub is running: on every tick while a started hub process is alive,
\* and on no tick once every run() thread has ended.
C6_PollingFollowsHub ==
  [][ PollHealth
        => /\ timerArmed'
           /\ (polled' = "issued") <=> hub_running
           /\ (\E p \in Threads : Live(p) /\ pc[p] \notin {"spawn", "started"})
                => polled' = "issued"
           /\ (\A t \in Threads : pc[t] = "unborn" \/ DoneThread(t))
                => polled' = "skipped" ]_vars

\* ======================================================= client properties
\* A failure as the claim names it: a transport error, a status outside 2xx,
\* or a body that is not valid JSON.
FailedOutcome(out) ==
  \/ out.kind = "error"
  \/ out.status < 200
  \/ out.status > 299
  \/ out.body.b \in {"bad_utf8", "garbage", "empty"}

TheAnswer == call.answer[1]

\* C7: every API client operation makes a single request attempt, never
\* raises to its caller, and returns None on a transport error, a non-2xx
\* status or an invalid JSON body.
C7_ClientReturnsNoDataOnFailure ==
  call.op # "none" =>
    /\ TheAnswer.attempts = 1
    /\ TheAnswer.result.t # "raised"
    /\ FailedOutcome(TheAnswer.outcome) => TheAnswer.result = NoData

\* C7 witness: a GET answered 200 with a body that is not JSON gave None.
C7_Witness ==
  /\ call.op = "get_health"
  /\ TheAnswer.outcome.kind = "response"
  /\ TheAnswer.outcome.status = 200
  /\ TheAnswer.outcome.body.b = "garbage"
  /\ TheAnswer.result = NoData

\* ======================================================= roster properties
\* The last entry of the roster with the given name.
LastEntry(servers_list, name) ==
  servers_list[CHOOSE i \in DOMAIN servers_list :
                 /\ servers_list[i].name = name
                 /\ \A j \in DOMAIN servers_list :
                      servers_list[j].name = name => j <= i]

BagHasMore(new, old, level) ==
  \E e \in BagToSet(new) : e[1] = level /\ CopiesIn(e, new) > CopiesIn(e, old)

\* C8: a "no data" answer is skipped silently on a polling health call (roster
\* view unchanged, no log entry) but reported as an ERROR log entry on a
\* user-initiated enable/disable of a sub-server.
C8_FailureSilentOnPollLoggedOnAction ==
  [][ /\ \A out \in GetOutcomes :
           (PollFetch(out) /\ get_health(out).result = NoData)
             => UNCHANGED <<cards, empty_packed, log_entries>>
      /\ \A n \in Names, out \in PostOutcomes :
           (OnSwitch(n, out) /\ start_server(n, out).result = NoData)
             => BagHasMore(log_entries', log_entries, "ERROR") ]_vars

\* C9: after refresh(roster) the displayed card names are exactly the roster's
\* names: cards of absent names were removed, names present before and after
\* were updated in place to the new data, and each new name got a card.
C9_RefreshMatchesRoster ==
  last.called =>
    LET names == NamesOf(last.roster) IN
      /\ DOMAIN cards = names
      /\ last.destroyed = last.before \ names
      /\ last.created = names \ last.before
      /\ (last.before \cap names) \subseteq last.updated
      /\ \A n \in DOMAIN cards :
           /\ cards[n].server_data = LastEntry(last.roster, n)
           /\ cards[n].server_name = n

\* C9 witness: one refresh removed a card, updated another and created none
\* for the updated name while the roster's data differed from the old data.
C9_Witness ==
  /\ last.called
  /\ last.destroyed # {}
  /\ last.before \cap NamesOf(last.roster) # {}
  /\ last.created = {}
  /\ \E n \in DOMAIN cards : cards[n].server_data.disabled

\* C10: a card whose name is present before and after a refresh keeps its
\* accumulated display state (its tool list stays expanded or collapsed).
C10_RefreshKeepsExpanded ==
  [][ (\E out \in GetOutcomes : PollFetch(out))
        => \A n \in (DOMAIN cards) \cap (DOMAIN cards') :
             cards'[n].expanded = cards[n].expanded ]_vars

\* The 200 answer to GET /api/health that carries the given roster.
HealthOutcome(roster) ==
  [kind |-> "response", err |-> "", status |-> 200,
   body |-> [b |-> "health", servers |-> roster]]

\* The roster view is still as the last refresh() left it.
ViewUntouched ==
  last.called /\ last.view = [cards |-> cards, empty_packed |-> empty_packed]

\* C11: refresh is idempotent: a refresh given the same roster as the refresh
\* just before it creates no card, destroys no card and leaves the roster
\* view (cards and empty-state label) as the first call left it.
C11_RefreshIdempotent ==
  [][ (ViewUntouched /\ PollFetch(HealthOutcome(last.roster)))
        => /\ last'.created = {}
           /\ last'.destroyed = {}
           /\ cards' = cards
           /\ empty_packed' = empty_packed ]_vars

\* C11 witness: the second of two refreshes in a row with the same non-empty
\* roster has run, and it updated the cards of that roster.
C11_Witness ==
  /\ last.again
  /\ last.roster # << >>
  /\ last.updated = NamesOf(last.roster)
  /\ ViewUntouched

\* C12: the empty-state message is shown exactly when no card is shown; a
\* refresh with an empty roster leaves no card and the message shown, and a
\* refresh with a non-empty roster leaves cards and the message hidden.
C12_EmptyLabelIffNoCards ==
  /\ empty_packed <=> (DOMAIN cards = {})
  /\ last.called => (empty_packed <=> (last.roster = << >>))

\* C12 witness: cards were shown, then a refresh with an empty roster removed
\* them all and the message is shown again.
C12_Witness ==
  /\ last.called
  /\ last.roster = << >>
  /\ last.before # {}
  /\ last.destroyed = last.before
  /\ DOMAIN cards = {}
  /\ empty_packed

\* ============================================ stop against the reader thread
\* C13: when a running hub is stopped by the user and its process exits in
\* response to terminate(), its run() thread ends through the wait, handing
\* over the callbacks that show "Stopped" and log no ERROR entry, whatever the
\* interleaving with _stop_hub; and when it ends while a hub started later
\* holds the handle, it leaves that hub's running flag and callbacks alone.
C13_StopRaceHarmless ==
  [][ \A t \in Threads :
        (proc[t] = "termexit" /\ ~DoneThread(t) /\ DoneThread(t)')
          => /\ pc'[t] = "done_exit"
             /\ uiq' = uiq \o ExitedCallbacks
             /\ (hub_process \notin {None, t}
                   => (hub_running' = hub_running /\ uiq' = uiq)) ]_vars

====
